---- MODULE Spec2Model ----
(***************************************************************************)
(* QIResult (src/src/quantuminspire/qiskit/qi_result.py): the two          *)
(* accessors get_probabilities and get_calibration over the ordered store  *)
(* of experiment results of a qiskit Result.  One action per call, per     *)
(* iteration of the accessor's for-loop and per return statement.          *)
(***************************************************************************)
EXTENDS Integers, Sequences, FiniteSets, TLC

\* Largest number of experiment results in the store.
MaxExp == 2

VARIABLES
    results,     \* self.results: the ordered store of ExperimentResult records
    pc,          \* "idle" | "loop" | "returned" | "raised"
    method,      \* the accessor being executed
    experiment,  \* its argument
    exp_keys,    \* the keys the for-loop iterates over
    pos,         \* 1-based position of the next loop iteration in exp_keys
    header,      \* the local variable header of get_probabilities
    dict_list,   \* the local list of collected entries
    retval,      \* the value returned, NoValue until a return statement ran
    error,       \* the exception that ended the call, NoError otherwise
    trace,       \* calls made on the base Result, in order
    prev         \* outcome of the preceding call when it had the same argument

vars == <<results, pc, method, experiment, exp_keys, pos, header, dict_list,
          retval, error, trace, prev>>

(***************************************************************************)
(* Python values                                                           *)
(***************************************************************************)

\* A Python str of digits: hex is TRUE when it starts with "0x".
Str(hex, digits) == [hex |-> hex, digits |-> digits]

PyNone == [type |-> "NoneType"]
PyDict(m) == [type |-> "dict", map |-> m]
PyList(s) == [type |-> "list", elems |-> s]
NoValue == [type |-> "unset"]

\* {"0x0": 0.5, "0x3": 0.5}, probabilities in percent.
P1 == PyDict((Str(TRUE, <<0>>) :> 50) @@ (Str(TRUE, <<3>>) :> 50))
ProbabilityEntries == {P1}

\* A backend-defined calibration mapping, and None (a simulator backend).
K1 == PyDict(Str(TRUE, <<2>>) :> 7)
CalibrationEntries == {K1, PyNone}

\* The data mapping of a record: a dict with any of the two keys.
DataMappings ==
    {<<>>}
    \cup {("probabilities" :> p) : p \in ProbabilityEntries}
    \cup {("calibration" :> c) : c \in CalibrationEntries}
    \cup {("probabilities" :> p) @@ ("calibration" :> c) :
             p \in ProbabilityEntries, c \in CalibrationEntries}

\* The header of a record: no header attribute, a header that decodes, or a
\* header whose to_dict() raises QiskitError.
Headers ==
    { [kind |-> "missing", name |-> "", memory_slots |-> 0],
      [kind |-> "ok", name |-> "a", memory_slots |-> 3],
      [kind |-> "broken", name |-> "b", memory_slots |-> 0] }

ExperimentResults == [data : DataMappings, header : Headers]

\* Experiment identifiers: None, an integer index, a name.
KeyNone == [kind |-> "None", i |-> 0, s |-> ""]
KeyInt(i) == [kind |-> "int", i |-> i, s |-> ""]
KeyStr(s) == [kind |-> "str", i |-> 0, s |-> s]
Names == {"a", "b"}

NoError == [type |-> "none", what |-> "", key |-> KeyNone]
NoHeader == [isNone |-> TRUE, memory_slots |-> 0]

(***************************************************************************)
(* The base Result and the formatting helper the accessors call            *)
(***************************************************************************)

\* Result._get_experiment(key) for the keys the accessors pass (an integer or
\* a name, never None): the 1-based position of the record, or the
\* resolver's QiskitError.  An integer indexes the list as Python does
\* (negative indices count from the end); a name selects the first record
\* whose header carries it.
_get_experiment(rs, key) ==
    IF key.kind = "int"
    THEN IF key.i >= 0 /\ key.i < Len(rs)
         THEN [ok |-> TRUE, at |-> key.i + 1, error |-> NoError]
         ELSE IF key.i < 0 /\ key.i >= 0 - Len(rs)
         THEN [ok |-> TRUE, at |-> Len(rs) + key.i + 1, error |-> NoError]
         ELSE [ok |-> FALSE, at |-> 0,
               error |-> [type |-> "QiskitError", what |-> "Result", key |-> key]]
    ELSE LET exps == {i \in DOMAIN rs : rs[i].header.name = key.s}
         IN  IF exps = {}
             THEN [ok |-> FALSE, at |-> 0,
                   error |-> [type |-> "QiskitError", what |-> "Data", key |-> key]]
             ELSE [ok |-> TRUE,
                   at |-> CHOOSE i \in exps : \A j \in exps : i <= j,
                   error |-> NoError]

\* Result.data(key): the data mapping of the resolved record.
data(rs, key) == rs[_get_experiment(rs, key).at].data

\* DecodeHeader with an except clause that leaves header as the iteration
\* before set it.
DecodeHeaderStale(exp) ==
    IF exp.header.kind = "ok"
    THEN [isNone |-> FALSE, memory_slots |-> exp.header.memory_slots]
    ELSE header

\* exp.header.to_dict() under the try/except of get_probabilities: the decoded
\* header, or None when there is no header or decoding raises.
DecodeHeader(exp) ==
    IF exp.header.kind = "ok"
    THEN [isNone |-> FALSE, memory_slots |-> exp.header.memory_slots]
    ELSE NoHeader

\* bin(n)[2:]
RECURSIVE ToBin(_)
ToBin(n) == IF n < 2 THEN <<n>> ELSE Append(ToBin(n \div 2), n % 2)

\* int(digits, 16)
RECURSIVE HexValue(_)
HexValue(digits) ==
    IF digits = <<>> THEN 0
    ELSE 16 * HexValue(SubSeq(digits, 1, Len(digits) - 1)) + digits[Len(digits)]

\* str.zfill(width)
RECURSIVE ZFill(_, _)
ZFill(bits, width) == IF Len(bits) >= width THEN bits ELSE ZFill(<<0>> \o bits, width)

\* postprocess.format_counts_memory: hexadecimal to binary, padded to the
\* header's memory_slots when a header is given.
format_counts_memory(shot_memory, hdr) ==
    LET bin == IF shot_memory.hex THEN ToBin(HexValue(shot_memory.digits))
               ELSE shot_memory.digits
    IN  IF ~hdr.isNone /\ hdr.memory_slots > 0
        THEN Str(FALSE, ZFill(bin, hdr.memory_slots))
        ELSE Str(FALSE, bin)

\* postprocess.format_counts: every key of the entry formatted.
format_counts(counts, hdr) ==
    LET fmt(k) == format_counts_memory(k, hdr)
        keys == {fmt(k) : k \in DOMAIN counts.map}
    IN  PyDict([f \in keys |->
                  counts.map[CHOOSE k \in DOMAIN counts.map : fmt(k) = f]])

(***************************************************************************)
(* QIResult                                                                *)
(***************************************************************************)

Event(op, key) == [op |-> op, key |-> key]

\* RangeKeys iterating from the last record to the first.
RangeKeysReversed(n) == [i \in 1..n |-> KeyInt(n - i)]

\* range(len(self.results)) as keys
RangeKeys(n) == [i \in 1..n |-> KeyInt(i - 1)]

\* Lines 65-68 and 103-106: the keys to iterate over.
ExpKeys(rs, e) == IF e = KeyNone THEN RangeKeys(Len(rs)) ELSE <<e>>

\* Collapse that always returns the list.
CollapseNever(dl) == PyList(dl)

\* Collapse that returns None for an empty list.
CollapseEmptyNone(dl) == IF Len(dl) = 1 THEN dl[1] ELSE IF dl = <<>> THEN PyNone ELSE PyList(dl)

\* Lines 85-88 and 119-122: a list of one entry collapses to the entry.
Collapse(dl) == IF Len(dl) = 1 THEN dl[1] ELSE PyList(dl)

\* The arguments a caller may pass for a store rs.
Experiments(rs) ==
    {KeyNone} \cup {KeyInt(i) : i \in (0 - 1)..Len(rs)} \cup {KeyStr(s) : s \in Names}

Done == pc \in {"returned", "raised"}

Outcome ==
    [method |-> method, pc |-> pc, retval |-> retval, error |-> error, trace |-> trace]
NoPrev ==
    [method |-> "none", pc |-> "idle", retval |-> NoValue, error |-> NoError,
     trace |-> <<>>]

Init ==
    /\ results \in UNION {[1..n -> ExperimentResults] : n \in 0..MaxExp}
    /\ pc = "idle"
    /\ method = "none"
    /\ experiment = KeyNone
    /\ exp_keys = <<>>
    /\ pos = 1
    /\ header = NoHeader
    /\ dict_list = <<>>
    /\ retval = NoValue
    /\ error = NoError
    /\ trace = <<>>
    /\ prev = NoPrev

\* Entry of an accessor, up to the for statement.  prev keeps the outcome of
\* the call before when that call had the same argument.
Call(m, e) ==
    /\ pc \in {"idle", "returned", "raised"}
    /\ method' = m
    /\ experiment' = e
    /\ exp_keys' = ExpKeys(results, e)
    /\ pos' = 1
    /\ header' = NoHeader
    /\ dict_list' = <<>>
    /\ retval' = NoValue
    /\ error' = NoError
    /\ trace' = <<>>
    /\ pc' = "loop"
    /\ prev' = IF Done /\ e = experiment THEN Outcome ELSE NoPrev
    /\ UNCHANGED results

get_probabilities == \E e \in Experiments(results) : Call("get_probabilities", e)

get_calibration == \E e \in Experiments(results) : Call("get_calibration", e)

\* An exception leaves the accessor: nothing is returned.
Abort(err, events) ==
    /\ pc' = "raised"
    /\ error' = err
    /\ trace' = trace \o events
    /\ UNCHANGED <<results, method, experiment, exp_keys, pos, dict_list, retval, prev>>

\* Propagate that converts the resolver's error into the missing-data error.
PropagateAsMissing(err, events) ==
    Abort([type |-> "QiskitBackendError", what |-> "experiment", key |-> err.key], events)

\* Lines 72 and 110: an error of the resolver is not handled by the accessor.
Propagate(err, events) == Abort(err, events)

\* Raise that returns what was collected so far instead of raising.
RaisePartial(what, key, events) ==
    /\ pc' = "returned"
    /\ retval' = PyList(dict_list)
    /\ trace' = trace \o events
    /\ UNCHANGED <<results, method, experiment, exp_keys, pos, dict_list, error, prev>>

\* Lines 82 and 116: the missing-data error, naming the key of the iteration.
Raise(what, key, events) ==
    Abort([type |-> "QiskitBackendError", what |-> what, key |-> key], events)

\* Collect that inserts the entry at the front of dict_list.
CollectFront(entry, events) ==
    /\ dict_list' = <<entry>> \o dict_list
    /\ pos' = pos + 1
    /\ trace' = trace \o events
    /\ UNCHANGED <<results, pc, method, experiment, exp_keys, retval, error, prev>>

\* Lines 80 and 114: dict_list.append(entry), and on to the next key.
Collect(entry, events) ==
    /\ dict_list' = Append(dict_list, entry)
    /\ pos' = pos + 1
    /\ trace' = trace \o events
    /\ UNCHANGED <<results, pc, method, experiment, exp_keys, retval, error, prev>>

\* Lines 79-80: the probabilities entry, formatted with the header.
ProbabilitiesEntry(rs, key, hdr) == format_counts(data(rs, key)["probabilities"], hdr)

\* CalibrationEntry passed through format_counts as the probabilities are.
CalibrationEntryFormatted(rs, key) ==
    IF data(rs, key)["calibration"] = PyNone THEN PyNone
    ELSE format_counts(data(rs, key)["calibration"], NoHeader)

\* Line 113: the calibration entry as stored.
CalibrationEntry(rs, key) == data(rs, key)["calibration"]

\* The calls an iteration makes on the base Result before it raises, and
\* before it appends.
Missed(key) == <<Event("_get_experiment", key), Event("data", key)>>
Found(key) == <<Event("_get_experiment", key), Event("data", key), Event("data", key)>>

\* ProbabilitiesIteration that stores the formatted entry back in the record.
ProbabilitiesIterationWritesBack ==
    /\ pc = "loop" /\ method = "get_probabilities" /\ pos <= Len(exp_keys)
    /\ LET key == exp_keys[pos]
           r == _get_experiment(results, key)
       IN  IF ~r.ok
           THEN Propagate(r.error, <<Event("_get_experiment", key)>>) /\ UNCHANGED header
           ELSE LET hdr == DecodeHeader(results[r.at])
                IN  /\ header' = hdr
                    /\ IF "probabilities" \in DOMAIN data(results, key)
                       THEN LET entry == ProbabilitiesEntry(results, key, hdr)
                            IN  /\ dict_list' = Append(dict_list, entry)
                                /\ pos' = pos + 1
                                /\ trace' = trace \o Found(key)
                                /\ results' = [results EXCEPT
                                       ![r.at].data = ("probabilities" :> entry) @@ @]
                                /\ UNCHANGED <<pc, method, experiment, exp_keys, retval,
                                               error, prev>>
                       ELSE Raise("probabilities", key, Missed(key))

\* One iteration of the for-loop of get_probabilities, lines 71-82.
ProbabilitiesIteration ==
    /\ pc = "loop" /\ method = "get_probabilities" /\ pos <= Len(exp_keys)
    /\ LET key == exp_keys[pos]
           r == _get_experiment(results, key)
       IN  IF ~r.ok
           THEN Propagate(r.error, <<Event("_get_experiment", key)>>) /\ UNCHANGED header
           ELSE LET hdr == DecodeHeader(results[r.at])
                IN  /\ header' = hdr
                    /\ IF "probabilities" \in DOMAIN data(results, key)
                       THEN Collect(ProbabilitiesEntry(results, key, hdr), Found(key))
                       ELSE Raise("probabilities", key, Missed(key))

\* CalibrationIteration that takes a missing entry for None.
CalibrationIterationLenient ==
    /\ pc = "loop" /\ method = "get_calibration" /\ pos <= Len(exp_keys)
    /\ UNCHANGED header
    /\ LET key == exp_keys[pos]
           r == _get_experiment(results, key)
       IN  IF ~r.ok
           THEN Propagate(r.error, <<Event("_get_experiment", key)>>)
           ELSE IF "calibration" \in DOMAIN data(results, key)
                THEN Collect(CalibrationEntry(results, key), Found(key))
                ELSE Collect(PyNone, Missed(key))

\* One iteration of the for-loop of get_calibration, lines 109-116.
CalibrationIteration ==
    /\ pc = "loop" /\ method = "get_calibration" /\ pos <= Len(exp_keys)
    /\ UNCHANGED header
    /\ LET key == exp_keys[pos]
           r == _get_experiment(results, key)
       IN  IF ~r.ok
           THEN Propagate(r.error, <<Event("_get_experiment", key)>>)
           ELSE IF "calibration" \in DOMAIN data(results, key)
                THEN Collect(CalibrationEntry(results, key), Found(key))
                ELSE Raise("calibration data", key, Missed(key))

\* The return statements after the loop of either accessor, lines 85-88 and
\* 119-122.
Return ==
    /\ pc = "loop" /\ pos > Len(exp_keys)
    /\ retval' = Collapse(dict_list)
    /\ pc' = "returned"
    /\ UNCHANGED <<results, method, experiment, exp_keys, pos, header, dict_list,
                   error, trace, prev>>

Next ==
    \/ get_probabilities
    \/ get_calibration
    \/ ProbabilitiesIteration
    \/ CalibrationIteration
    \/ Return

Spec == Init /\ [][Next]_vars


(***************************************************************************)
(* Properties                                                              *)
(***************************************************************************)

Resolves(key) == _get_experiment(results, key).ok
At(key) == _get_experiment(results, key).at

RequestedKey(m) == IF m = "get_probabilities" THEN "probabilities" ELSE "calibration"
Carries(rec, m) == RequestedKey(m) \in DOMAIN rec.data

\* The entry an accessor owes for a record that carries its key.
Expected(m, rec) ==
    IF m = "get_probabilities"
    THEN format_counts(rec.data["probabilities"],
                       IF rec.header.kind = "ok"
                       THEN [isNone |-> FALSE, memory_slots |-> rec.header.memory_slots]
                       ELSE NoHeader)
    ELSE rec.data["calibration"]

AllResolve == \A i \in DOMAIN exp_keys : Resolves(exp_keys[i])

\* C1: a call that resolves exactly one experiment whose record carries the
\* requested key returns that record's entry itself, never a list.
C1_SingleMappingDirect ==
    (Done /\ Len(exp_keys) = 1 /\ Resolves(exp_keys[1])
          /\ Carries(results[At(exp_keys[1])], method))
    => /\ pc = "returned"
       /\ retval.type # "list"
       /\ retval = Expected(method, results[At(exp_keys[1])])

C1_Witness ==
    /\ pc = "returned" /\ method = "get_probabilities"
    /\ experiment = KeyInt(1) /\ Len(results) = 2
    /\ retval.type = "dict"

\* C2: with no argument and n >= 2 records that all carry the key, the call
\* returns a list of n entries, the i-th from the i-th record.
C2_ListInStoreOrder ==
    (Done /\ experiment = KeyNone /\ Len(results) >= 2
          /\ \A i \in DOMAIN results : Carries(results[i], method))
    => /\ pc = "returned"
       /\ retval.type = "list"
       /\ Len(retval.elems) = Len(results)
       /\ \A i \in DOMAIN results : retval.elems[i] = Expected(method, results[i])

C2_Witness ==
    /\ pc = "returned" /\ experiment = KeyNone
    /\ retval.type = "list" /\ Len(retval.elems) = 2
    /\ retval.elems[1] # retval.elems[2]

\* C3: when a resolved experiment lacks the key the call ends in the
\* missing-data error and returns nothing, wherever the missing entry is.
C3_NoPartialResult ==
    /\ (Done /\ AllResolve
             /\ \E i \in DOMAIN exp_keys : ~Carries(results[At(exp_keys[i])], method))
       => (pc = "raised" /\ error.type = "QiskitBackendError" /\ retval = NoValue)
    /\ pc = "raised" => retval = NoValue

C3_Witness ==
    /\ pc = "raised" /\ error.type = "QiskitBackendError"
    /\ experiment = KeyNone /\ Len(dict_list) = 1 /\ retval = NoValue

\* C4: get_calibration returns the stored values as they are, and a stored
\* None comes back as None for a single experiment instead of an error.
C4_CalibrationRaw ==
    /\ (pc = "returned" /\ method = "get_calibration")
       => retval = IF Len(exp_keys) = 1
                   THEN results[At(exp_keys[1])].data["calibration"]
                   ELSE PyList([i \in 1..Len(exp_keys) |->
                                   results[At(exp_keys[i])].data["calibration"]])
    /\ (Done /\ method = "get_calibration" /\ Len(exp_keys) = 1 /\ Resolves(exp_keys[1])
             /\ Carries(results[At(exp_keys[1])], method)
             /\ results[At(exp_keys[1])].data["calibration"] = PyNone)
       => (pc = "returned" /\ retval = PyNone)

C4_Witness ==
    /\ pc = "returned" /\ method = "get_calibration"
    /\ retval = PyNone /\ Len(results) = 2

\* C5: in get_probabilities a header that cannot be decoded becomes None, the
\* entry is still formatted with it, and only the presence of the
\* "probabilities" key decides whether the call returns or raises.
C5_HeaderFailureTolerated ==
    (method = "get_probabilities" /\ AllResolve)
    => /\ Done => (pc = "returned" <=>
                     \A i \in DOMAIN exp_keys : Carries(results[At(exp_keys[i])], method))
       /\ pc = "raised" => error.type = "QiskitBackendError"
       /\ \A i \in DOMAIN dict_list :
             results[At(exp_keys[i])].header.kind # "ok"
             => dict_list[i] = format_counts(
                                  results[At(exp_keys[i])].data["probabilities"], NoHeader)
       /\ LET last == IF pc = "raised" THEN pos ELSE pos - 1
          IN  (last >= 1 /\ results[At(exp_keys[last])].header.kind # "ok")
              => header = NoHeader

C5_Witness ==
    /\ pc = "returned" /\ method = "get_probabilities" /\ experiment = KeyNone
    /\ Len(results) = 2
    /\ results[1].header.kind = "ok" /\ results[2].header.kind = "broken"

\* C6: an identifier the resolver cannot resolve ends the call in the
\* resolver's own error, before any data mapping is looked up.
C6_ResolverErrorSurfaces ==
    (Done /\ experiment # KeyNone /\ ~Resolves(experiment))
    => /\ pc = "raised"
       /\ error = _get_experiment(results, experiment).error
       /\ error.type = "QiskitError"
       /\ trace = <<Event("_get_experiment", experiment)>>

C6_Witness ==
    /\ pc = "raised" /\ error.type = "QiskitError"
    /\ experiment = KeyStr("b") /\ method = "get_calibration" /\ Len(results) = 2

SameKeys ==
    \A i \in DOMAIN results :
        ("calibration" \in DOMAIN results[i].data)
        <=> ("probabilities" \in DOMAIN results[i].data)

\* C7: on a store whose records carry "calibration" exactly when they carry
\* "probabilities", the two accessors called with the same argument end the
\* same way: the same error for the same experiment, a single value, or
\* lists of the same length, after the same calls on the base Result.
C7_SamePolicy ==
    (Done /\ prev.method \notin {"none", method} /\ SameKeys)
    => /\ prev.pc = pc
       /\ prev.error.type = error.type
       /\ prev.error.key = error.key
       /\ (prev.retval.type = "list") <=> (retval.type = "list")
       /\ retval.type = "list" => Len(retval.elems) = Len(prev.retval.elems)
       /\ prev.trace = trace

C7_Witness ==
    /\ pc = "raised" /\ method = "get_calibration" /\ prev.method = "get_probabilities"
    /\ SameKeys /\ error.type = "QiskitBackendError" /\ error.key = KeyInt(1)

\* C8: no step of either accessor changes the store, and a call repeated with
\* the same argument ends as the call before it did.
C8_PureReads ==
    [][/\ results' = results
       /\ (pc' \in {"returned", "raised"} /\ prev'.method = method') => Outcome' = prev'
      ]_vars

C8_Witness ==
    /\ Done /\ prev.method = method /\ prev.pc = "raised" /\ Len(results) = 2

Lacking == {i \in DOMAIN results : ~Carries(results[i], method)}
Lowest(S) == CHOOSE i \in S : \A j \in S : i <= j

\* C9: with no argument the error names the lowest position that lacks the
\* key, and nothing after that position is resolved or looked up.
C9_FirstMissingReported ==
    (Done /\ experiment = KeyNone /\ Lacking # {})
    => /\ pc = "raised"
       /\ error.type = "QiskitBackendError"
       /\ error.key = KeyInt(Lowest(Lacking) - 1)
       /\ Len(dict_list) = Lowest(Lacking) - 1
       /\ \A e \in DOMAIN trace :
             trace[e].key.kind = "int" /\ trace[e].key.i <= Lowest(Lacking) - 1

C9_Witness ==
    /\ pc = "raised" /\ experiment = KeyNone
    /\ Cardinality(Lacking) >= 2 /\ error.key = KeyInt(0)

\* C10: on an empty store a call with no argument returns the empty list,
\* and a returned value is a list exactly when the number of resolved
\* experiments is not one.
C10_EmptyStore ==
    /\ (Done /\ experiment = KeyNone /\ results = <<>>)
       => (pc = "returned" /\ retval = PyList(<<>>) /\ error = NoError)
    /\ pc = "returned" => ((retval.type = "list") <=> (Len(exp_keys) # 1))

C10_Witness ==
    /\ pc = "returned" /\ results = <<>> /\ method = "get_calibration"
    /\ retval = PyList(<<>>)

====
